---- MODULE Spec2Model ----
(***************************************************************************)
(* Model of the CSV splitter component                                     *)
(* (src/components/csv-splitter/index.tsx): the row partitioner            *)
(* splitEvenly, the part registry kept in the `parts` state with its       *)
(* object-URL handles, and the per-part e-mail dispatch sendPart; the       *)
(* delimiter sniffer guessDelimiter; and the route POST /api/send-split    *)
(* that hands a part to the e-mail transport.                              *)
(***************************************************************************)
EXTENDS Integers, Sequences, FiniteSets, TLC

(***************************************************************************)
(* Bounds of the model.                                                    *)
(***************************************************************************)
\* longest row sequence handed to splitEvenly in SpecPartition
MaxN == 7
\* largest part count handed to splitEvenly in SpecPartition
MaxK == 4

\* most rows (header excluded) of a file of the lifecycle specification
MaxRows == 2
\* most object URLs minted in one behaviour
MaxUrls == 3
\* most sendPart calls awaiting the transport's answer at once
MaxInFlight == 2
\* most handleSplit calls awaiting parseCsv at once
MaxPendingSplits == 1
\* most occurrences of one candidate delimiter in a sample (SpecSniff)
MaxCount == 5

VARIABLES
  \* ---- arguments and result of one call of splitEvenly (SpecPartition)
  rowsArg,      \* rows: the caller's row array, as it is before and after the call
  partsArg,     \* parts: the part count
  shuffleArg,   \* shuffleRows as the closure of splitEvenly sees it
  chunks,       \* the returned chunks (<<>> before the call)
  called,       \* whether splitEvenly has returned
  swaps,        \* the swaps the shuffle loop made, in order: [i, j] of line 118
  \* ---- argument and result of one call of guessDelimiter (SpecSniff)
  sample,       \* the text of file.slice(0, 64 * 1024)
  best,         \* the returned delimiter ("," before the call)
  guessed,      \* whether guessDelimiter has returned
  \* ---- one request to POST /api/send-split (SpecRoute)
  env,          \* process.env: whether BREVO_API_KEY and FROM_EMAIL are set
  form,         \* the request's form data: email, file, the file's byte length
  response,     \* the HTTP status of the response (0 before it is sent)
  brevoCalls,   \* how many times the route has called the Brevo API
  \* ---- the component's state (Spec)
  file,         \* useState file (line 24): NoFile or a file
  agents,       \* useState agents (line 25): the text of the number input
  status,       \* useState status (line 26)
  shuffleRows,  \* useState shuffleRows (line 29)
  memoShuffle,  \* the shuffleRows the memoized handleSplit closes over (line 171)
  parts,        \* useState parts (line 36)
  live,         \* the object URLs created and not yet revoked
  minted,       \* how many object URLs URL.createObjectURL has handed out
  inflight,     \* the sendPart calls suspended at `await fetch` (line 209)
  splits        \* the handleSplit calls suspended at `await parseCsv()` (line 149)

partVars == <<rowsArg, partsArg, shuffleArg, chunks, called, swaps>>
lifeVars == <<file, agents, status, shuffleRows, memoShuffle, parts, live, minted,
              inflight, splits>>
sniffVars == <<sample, best, guessed>>
routeVars == <<env, form, response, brevoCalls>>
\* what the component's handlers leave alone
otherVars == <<partVars, sniffVars, routeVars>>
vars == <<rowsArg, partsArg, shuffleArg, chunks, called, swaps,
          sample, best, guessed, env, form, response, brevoCalls,
          file, agents, status, shuffleRows, memoShuffle, parts, live, minted,
          inflight, splits>>

(***************************************************************************)
(* Helpers on sequences.                                                   *)
(***************************************************************************)
Min(a, b) == IF a < b THEN a ELSE b

RECURSIVE Concat(_)
\* the concatenation of a sequence of sequences, in order
Concat(ss) == IF ss = <<>> THEN <<>> ELSE Head(ss) \o Concat(Tail(ss))

RECURSIVE SumLen(_)
\* the total number of rows of a sequence of chunks
SumLen(ss) == IF ss = <<>> THEN 0 ELSE Len(Head(ss)) + SumLen(Tail(ss))

\* how many positions of s hold r
Occurrences(s, r) == Cardinality({i \in DOMAIN s : s[i] = r})

\* the rows of a parsed file, named by their position in the file
RowIds(n) == [i \in 1..n |-> i]

(***************************************************************************)
(* splitEvenly (index.tsx 113-133).  JavaScript arrays are 0-based: the    *)
(* element at JS index i is s[i+1] here.                                   *)
(***************************************************************************)
\* Math.floor(Math.random() * (i + 1)): any index 0..i  (line 117)
RandomIndex(i) == 0..i

RECURSIVE RandomDraws(_)
\* the draws of one run of the shuffle loop over n elements: draws[i] is the
\* j drawn in the iteration with loop index i, for i = n-1 down to 1
RandomDraws(n) ==
  IF n <= 1 THEN {<<>>}
  ELSE {Append(d, j) : d \in RandomDraws(n - 1), j \in RandomIndex(n - 1)}

\* a swap that copies copy[j] over copy[i] and forgets the old copy[i]
SwapOverwrite(copy, i, j) == [copy EXCEPT ![i + 1] = copy[j + 1]]

\* [copy[i], copy[j]] = [copy[j], copy[i]]  (line 118)
Swap(copy, i, j) == [copy EXCEPT ![i + 1] = copy[j + 1], ![j + 1] = copy[i + 1]]

RECURSIVE ShuffleLoop(_, _, _)
\* for (let i = copy.length - 1; i > 0; i--) { ... }  (lines 116-119)
ShuffleLoop(copy, i, draws) ==
  IF i > 0 THEN ShuffleLoop(Swap(copy, i, draws[i]), i - 1, draws) ELSE copy

RECURSIVE ShuffleSwaps(_, _)
\* the pairs [i, j] the loop of lines 116-119 swaps, in the order it does
ShuffleSwaps(i, draws) ==
  IF i > 0 THEN <<[i |-> i, j |-> draws[i]]>> \o ShuffleSwaps(i - 1, draws) ELSE <<>>

\* an assignment that shares the caller's array: const copy = rows
SpreadAlias(arrays, r) == [arrays |-> arrays, ref |-> r]

\* const copy = [...rows] (line 115): a new array, arrays[ref], with the
\* elements of arrays[r]
Spread(arrays, r) == [arrays |-> Append(arrays, arrays[r]), ref |-> Len(arrays) + 1]

\* lines 114-121 run with the caller's array as arrays[1]: the arrays
\* afterwards, and the one the parameter `rows` then refers to
ShuffleBranch(rows, shuffle, draws) ==
  IF shuffle
  THEN LET c == Spread(<<rows>>, 1)
       IN  [arrays |-> [c.arrays EXCEPT
                          ![c.ref] = ShuffleLoop(c.arrays[c.ref], Len(rows) - 1, draws)],
            ref |-> c.ref]
  ELSE [arrays |-> <<rows>>, ref |-> 1]

\* Array.prototype.slice(start, end) for 0 <= start <= end  (line 129)
Slice(s, start, end) == SubSeq(s, start + 1, Min(end, Len(s)))

\* a chunk size rounded up instead of down
SizeCeiling(n, nparts) == (n + nparts - 1) \div nparts

\* Math.floor(rows.length / parts)  (line 122)
Size(n, nparts) == n \div nparts

\* a remainder test that is off by one: p <= remainder
ExtraInclusive(p, remainder) == IF p <= remainder THEN 1 ELSE 0

\* const extra = p < remainder ? 1 : 0  (line 127)
Extra(p, remainder) == IF p < remainder THEN 1 ELSE 0

RECURSIVE ChunkLoop(_, _, _, _, _, _)
\* for (let p = 0; p < parts; p++) { ... }  (lines 126-131)
ChunkLoop(rows, nparts, size, remainder, p, start) ==
  IF p < nparts
  THEN LET end == start + size + Extra(p, remainder)
       IN  <<Slice(rows, start, end)>>
             \o ChunkLoop(rows, nparts, size, remainder, p + 1, end)
  ELSE <<>>

\* splitEvenly(rows, parts) (lines 113-133), with nparts for its parameter
\* `parts`, shuffle for the shuffleRows its closure reads and the draws of
\* Math.random made explicit
splitEvenly(rows, nparts, shuffle, draws) ==
  LET after == ShuffleBranch(rows, shuffle, draws)
      rows2 == after.arrays[after.ref]
      size == Size(Len(rows2), nparts)
      remainder == Len(rows2) % nparts
  IN  ChunkLoop(rows2, nparts, size, remainder, 0, 0)

(***************************************************************************)
(* The inputs of the component.                                            *)
(***************************************************************************)
NoFile == [name |-> <<>>, data |-> <<>>, chosen |-> FALSE]

\* the header row of a parsed file
Header == 0

\* the files the user can choose: a.csv with a header and MaxRows rows, and
\* e with no line at all.  A file's data is what Papa.parse hands to
\* `complete`; all files are comma-delimited, so that guessDelimiter's answer
\* is the delimiter state's initial value and setDelimiter (line 88) changes
\* nothing.
Files ==
  { [name |-> <<"a", ".", "c", "s", "v">>, data |-> <<Header>> \o RowIds(MaxRows),
     chosen |-> TRUE],
    [name |-> <<"e">>, data |-> <<>>, chosen |-> TRUE] }

\* the part counts typed in the behaviours of Spec
CountInputs == {"2", "1"}

\* the texts typed into the "Number of agents" input
AgentInputs == {"2", "1", "0", "-1", "1.5", "", "abc"}

\* a conversion that cuts the fraction off, as parseInt does
NumberTruncating(text) ==
  CASE text = "2" -> [isInteger |-> TRUE, value |-> 2]
    [] text = "1" -> [isInteger |-> TRUE, value |-> 1]
    [] text = "0" -> [isInteger |-> TRUE, value |-> 0]
    [] text = "-1" -> [isInteger |-> TRUE, value |-> -1]
    [] text = "1.5" -> [isInteger |-> TRUE, value |-> 1]
    [] OTHER -> [isInteger |-> FALSE, value |-> 0]

\* Number(agents) (line 146): the value, and whether it is an integer
Number(text) ==
  CASE text = "2" -> [isInteger |-> TRUE, value |-> 2]
    [] text = "1" -> [isInteger |-> TRUE, value |-> 1]
    [] text = "0" -> [isInteger |-> TRUE, value |-> 0]
    [] text = "-1" -> [isInteger |-> TRUE, value |-> -1]
    [] text = "" -> [isInteger |-> TRUE, value |-> 0]
    [] text = "1.5" -> [isInteger |-> FALSE, value |-> 1]
    [] OTHER -> [isInteger |-> FALSE, value |-> 0]

\* the texts typed into a part's e-mail input
EmailInputs ==
  { <<>>,
    <<"n", "o", "t", "-", "a", "n", "-", "e", "m", "a", "i", "l">>,
    <<" ", "a", "@", "b", ".", "c", " ">> }

Whitespace == {" ", "\t", "\n"}

RECURSIVE TrimStart(_)
TrimStart(s) ==
  IF s # <<>> /\ Head(s) \in Whitespace THEN TrimStart(Tail(s)) ELSE s

RECURSIVE TrimEnd(_)
TrimEnd(s) ==
  IF s # <<>> /\ s[Len(s)] \in Whitespace
  THEN TrimEnd(SubSeq(s, 1, Len(s) - 1)) ELSE s

\* String.prototype.trim  (line 194)
Trim(s) == TrimEnd(TrimStart(s))

\* a test that accepts every non-empty text
EmailRegexNonEmpty(s) == s # <<>>

\* /^[^@\s]+@[^@\s]+\.[^@\s]+$/.test(s)  (line 195): one '@', not first, no
\* white space, and after the '@' a '.' with a character on either side
EmailRegex(s) ==
  \E a \in DOMAIN s :
    /\ s[a] = "@" /\ 1 < a
    /\ \A i \in DOMAIN s \ {a} : s[i] \notin Whitespace \cup {"@"}
    /\ \E d \in DOMAIN s : s[d] = "." /\ a + 1 < d /\ d < Len(s)

(***************************************************************************)
(* Messages.                                                               *)
(***************************************************************************)
NoError == "null"
MsgInvalidEmail == "Enter a valid email address."
MsgFailedToSend == "Failed to send email"
MsgError == "Error"
MsgAgents == "Agents must be a positive integer."
MsgEmptyCsv == "CSV appears empty."
MsgParsing == "Parsing CSV..."
MsgDone ==
  "Done! Files are ready below. You can download individually, send via email, or download all as ZIP."
MsgReadError == "read error"

\* what the transport can answer to one fetch (lines 209-223): a 2xx
\* response, a non-2xx response with a body or with an empty body, or a
\* rejected fetch.  The errors fetch and res.text() reject with carry a
\* message, so that the fallback 'Error' of line 221 is never taken.
Outcomes ==
  { [kind |-> "ok", text |-> ""],
    [kind |-> "http", text |-> "Brevo error"],
    [kind |-> "http", text |-> ""],
    [kind |-> "throw", text |-> "Failed to fetch"] }

(***************************************************************************)
(* Derived values of a render.                                             *)
(***************************************************************************)
\* String.prototype.lastIndexOf('.') (line 42), 0-based, -1 when absent
LastIndexOfDot(s) ==
  IF \E i \in DOMAIN s : s[i] = "."
  THEN (CHOOSE i \in DOMAIN s : s[i] = "." /\ \A j \in DOMAIN s : s[j] = "." => j <= i) - 1
  ELSE -1

\* baseName (lines 40-44)
baseName(f) ==
  IF f.name = <<>> THEN <<"s", "p", "l", "i", "t">>
  ELSE LET dot == LastIndexOfDot(f.name)
       IN  IF dot = -1 THEN f.name ELSE SubSeq(f.name, 1, dot)

\* the object URLs of a part array
Urls(ps) == {ps[i].url : i \in DOMAIN ps}

\* a sweep that skips the first part
RevokeAllButFirst(urls, ps) == urls \ {ps[i].url : i \in DOMAIN ps \ {1}}

\* prev.forEach(p => URL.revokeObjectURL(p.url))  (lines 49, 61, 74, 162, 234)
RevokeAll(urls, ps) == urls \ {ps[i].url : i \in DOMAIN ps}

\* the cleanup of the effect on [parts] (lines 46-51): React runs it with the
\* old array each time setParts installs another array
PartsEffectCleanup(urls, oldParts) == RevokeAll(urls, oldParts)

\* the shuffleRows seen by the handleSplit of the next render: useCallback
\* (line 171) makes a new handleSplit, closing over the render's splitEvenly and
\* so over its shuffleRows, only when one of its dependencies changed
Recapture(depsChanged) == IF depsChanged THEN shuffleRows ELSE memoShuffle

(***************************************************************************)
(* guessDelimiter (lines 419-435).                                         *)
(***************************************************************************)
\* const candidates = [',', '\t', ';', '|']  (line 421)
Candidates == <<",", "\t", ";", "|">>

\* the characters escapeRegex puts a backslash before (line 434)
RegexSpecials == {".", "*", "+", "?", "^", "$", "{", "}", "(", ")", "|", "[", "]", "\\"}

\* escapeRegex(d) (lines 433-435) for a one-character d
escapeRegex(d) == IF d \in RegexSpecials THEN <<"\\", d>> ELSE <<d>>

\* (sample.match(new RegExp(pattern, 'g')) || []).length (line 425), for a
\* pattern that is one character or one escaped character: both match that
\* character literally, and match() answers null when there is no match
MatchCount(text, pattern) ==
  LET literal == pattern[Len(pattern)]
  IN  Cardinality({i \in DOMAIN text : text[i] = literal})

\* a comparison that lets a later candidate win a tie
BetterOrEqual(count, bestCount) == count >= bestCount

\* count > bestCount  (line 426)
Better(count, bestCount) == count > bestCount

RECURSIVE GuessLoop(_, _, _, _)
\* for (const d of candidates) { ... }  (lines 424-430), at candidate c
GuessLoop(text, c, bestSoFar, bestCount) ==
  IF c > Len(Candidates) THEN bestSoFar
  ELSE LET d == Candidates[c]
           count == MatchCount(text, escapeRegex(d))
       IN  IF Better(count, bestCount)
           THEN GuessLoop(text, c + 1, d, count)
           ELSE GuessLoop(text, c + 1, bestSoFar, bestCount)

\* guessDelimiter (lines 419-432) on the text of the file's first 64 KiB
guessDelimiter(text) == GuessLoop(text, 1, ",", -1)

RECURSIVE Repeat(_, _)
Repeat(c, n) == IF n = 0 THEN <<>> ELSE <<c>> \o Repeat(c, n - 1)

\* a sample with n[c] occurrences of Candidates[c], among other characters
SampleOf(n) ==
  Repeat("|", n[4]) \o <<"a">> \o Repeat(";", n[3]) \o <<"\n">>
    \o Repeat("\t", n[2]) \o <<"b">> \o Repeat(",", n[1])

\* the samples guessDelimiter is called on in SpecSniff
Samples == {SampleOf(n) : n \in [1..4 -> 0..MaxCount]}

SniffIdle == sample = <<>> /\ best = "," /\ guessed = FALSE

(***************************************************************************)
(* The route POST /api/send-split (lines 705-792).                         *)
(***************************************************************************)
\* const MAX_ATTACHMENT_BYTES = 20 * 1024 * 1024  (line 712)
MAX_ATTACHMENT_BYTES == 20 * 1024 * 1024

\* const EMAIL_REGEX (line 711): the pattern of line 195
EMAIL_REGEX(s) == EmailRegex(s)

\* process.env: whether the two required variables are set and non-empty
Envs == [apiKey : BOOLEAN, fromEmail : BOOLEAN]

\* form.get('file'): nothing, a text field, or a file
FileFields == {"null", "string", "Blob"}

\* the requests whose body is form data, as the component sends them (lines
\* 203-209): the text of the field email (<<>> also for a missing field:
\* String(null || '')), the field file, and a file's length in bytes
Forms ==
  { f \in [email : EmailInputs, file : FileFields,
           byteLength : {0, MAX_ATTACHMENT_BYTES - 1, MAX_ATTACHMENT_BYTES,
                         MAX_ATTACHMENT_BYTES + 1}] :
      f.file # "Blob" => f.byteLength = 0 }

\* what the Brevo API does with one call (lines 770-788): a 2xx response, a
\* non-2xx response, or a fetch that rejects
BrevoOutcomes == {"ok", "error", "throw"}

NoForm == [email |-> <<>>, file |-> "null", byteLength |-> 0]

RouteIdle ==
  /\ env = [apiKey |-> FALSE, fromEmail |-> FALSE]
  /\ form = NoForm
  /\ response = 0
  /\ brevoCalls = 0

\* a test that misses a single unset variable
MissingEnvBoth(e) == ~e.apiKey /\ ~e.fromEmail

\* !apiKey || !fromEmail  (line 721)
MissingEnv(e) == ~e.apiKey \/ ~e.fromEmail

LifeInit ==
  /\ file = NoFile
  /\ agents = "2"
  /\ status = ""
  /\ shuffleRows = FALSE
  /\ memoShuffle = FALSE
  /\ parts = <<>>
  /\ live = {}
  /\ minted = 0
  /\ inflight = <<>>
  /\ splits = <<>>

Init ==
  /\ rowsArg = <<>> /\ partsArg = 1 /\ shuffleArg = FALSE
  /\ chunks = <<>> /\ called = FALSE /\ swaps = <<>>
  /\ SniffIdle
  /\ RouteIdle
  /\ LifeInit

(***************************************************************************)
(* Choosing a file, resetting, the options.                                *)
(***************************************************************************)
\* the state changes shared by onFileChange, handleDrop and resetAll: the
\* file is replaced and the parts are cleared, their URLs revoked
ReplaceFile(f) ==
  /\ file' = f
  /\ status' = ""
  /\ parts' = <<>>
  /\ live' = PartsEffectCleanup(RevokeAll(live, parts), parts)
  /\ memoShuffle' = Recapture(f.chosen \/ file.chosen)
  /\ UNCHANGED <<agents, shuffleRows, minted, inflight, splits>>

\* onFileChange (lines 53-64); the dialog can be cancelled: f = null
onFileChange ==
  /\ \E f \in Files \cup {NoFile} : ReplaceFile(f)
  /\ UNCHANGED otherVars

\* handleDrop (lines 66-81): a drop that carries no file changes nothing
handleDrop ==
  /\ \E f \in Files \cup {NoFile} :
       IF f.chosen THEN ReplaceFile(f) ELSE UNCHANGED lifeVars
  /\ UNCHANGED otherVars

\* resetAll (lines 228-238)
resetAll ==
  /\ ReplaceFile(NoFile)
  /\ UNCHANGED otherVars

\* the agents input's onChange (line 269)
setAgents(inputs) ==
  /\ \E a \in inputs \ {agents} :
       /\ agents' = a
       /\ memoShuffle' = Recapture(TRUE)
  /\ UNCHANGED <<file, status, shuffleRows, parts, live, minted, inflight, splits>>
  /\ UNCHANGED otherVars

\* the shuffle checkbox's onChange (line 281): shuffleRows is no dependency
\* of handleSplit
setShuffleRows ==
  /\ shuffleRows' = ~shuffleRows
  /\ UNCHANGED <<file, agents, status, memoShuffle, parts, live, minted, inflight,
                 splits>>
  /\ UNCHANGED otherVars

\* the BOM checkbox's onChange (line 277): includeBOM is a dependency of
\* handleSplit; its value only decides the bytes of the blobs
setIncludeBOM ==
  /\ memoShuffle' = Recapture(TRUE)
  /\ UNCHANGED <<file, agents, status, shuffleRows, parts, live, minted, inflight,
                 splits>>
  /\ UNCHANGED otherVars

(***************************************************************************)
(* handleSplit (lines 143-171) with parseCsv (lines 84-111).               *)
(***************************************************************************)
\* a catch that only logs the error: the status stays as it is
CaughtStatusKept(message) == status

\* setStatus(err.message || String(err)) (line 169) for an Error with this
\* message; String of an Error without message is 'Error'
CaughtStatus(message) == IF message # "" THEN message ELSE MsgError

\* the URLs a split of this render may still mint within MaxUrls
RECURSIVE PendingUrls(_)
PendingUrls(ss) ==
  IF ss = <<>> THEN 0 ELSE Head(ss).partsCount + PendingUrls(Tail(ss))

\* the Split button (lines 327-334, disabled without a file) runs handleSplit
\* up to its first suspension: the checks of lines 145-147, then parseCsv's
\* setStatus, then the awaits of guessDelimiter and Papa.parse.  The suspended
\* call keeps what its closure holds: file, partsCount and the shuffleRows of
\* its splitEvenly; `option` records the shuffle checkbox as shown at the click.
handleSplitClick ==
  /\ file.chosen
  /\ LET partsCount == Number(agents)
     IN  IF ~partsCount.isInteger \/ partsCount.value <= 0
         THEN /\ status' = CaughtStatus(MsgAgents)
              /\ UNCHANGED splits
         ELSE /\ Len(splits) < MaxPendingSplits
              /\ minted + PendingUrls(splits) + partsCount.value <= MaxUrls
              /\ status' = MsgParsing
              /\ splits' = Append(splits,
                                  [file |-> file, partsCount |-> partsCount.value,
                                   shuffle |-> memoShuffle, option |-> shuffleRows])
  /\ UNCHANGED <<file, agents, shuffleRows, memoShuffle, parts, live, minted, inflight>>
  /\ UNCHANGED otherVars

\* without the n-th element
RemoveAt(s, n) == SubSeq(s, 1, n - 1) \o SubSeq(s, n + 1, Len(s))

\* the decimal numeral of a number below ten
DecimalDigit(n) == <<"0", "1", "2", "3", "4", "5", "6", "7", "8", "9">>[n + 1]

\* a part name numbered from zero
PartNameZeroBased(base, idx) ==
  base \o <<"-", "p", "a", "r", "t", DecimalDigit(idx), ".", "c", "s", "v">>

\* `${baseName}-part${idx + 1}.csv` (line 155), for idx + 1 below ten
PartName(base, idx) ==
  base \o <<"-", "p", "a", "r", "t", DecimalDigit(idx + 1), ".", "c", "s", "v">>

\* newParts (lines 153-158): the chunk at JS index idx = i - 1 becomes the
\* part `${baseName}-part${idx + 1}.csv` with the next fresh object URL;
\* sending, sentOk and error are absent, which reads as false / no error
NewParts(cs, base, first) ==
  [i \in DOMAIN cs |->
     [name |-> PartName(base, i - 1), blob |-> cs[i], url |-> first + i,
      rowCount |-> Len(cs[i]), email |-> <<>>,
      sending |-> FALSE, sentOk |-> FALSE, error |-> NoError]]

\* Papa.parse answers a suspended handleSplit (lines 95-108), which then runs
\* to its end (lines 150-170)
handleSplitResume ==
  /\ \E n \in DOMAIN splits : \E readOk \in BOOLEAN :
       LET s == splits[n]
           data == s.file.data
       IN  /\ splits' = RemoveAt(splits, n)
           /\ IF ~readOk
              THEN /\ status' = CaughtStatus(MsgReadError)
                   /\ UNCHANGED <<parts, live, minted>>
              ELSE IF Len(data) = 0
              THEN /\ status' = CaughtStatus(MsgEmptyCsv)
                   /\ UNCHANGED <<parts, live, minted>>
              ELSE \E draws \in RandomDraws(Len(data) - 1) :
                     LET cs == splitEvenly(Tail(data), s.partsCount, s.shuffle, draws)
                         newParts == NewParts(cs, baseName(s.file), minted)
                     IN  /\ parts' = newParts
                         /\ minted' = minted + Len(cs)
                         /\ live' = PartsEffectCleanup(
                                      RevokeAll(live \cup Urls(newParts), parts), parts)
                         /\ status' = MsgDone
  /\ UNCHANGED <<file, agents, shuffleRows, memoShuffle, inflight>>
  /\ UNCHANGED otherVars

(***************************************************************************)
(* The parts table: the e-mail input and sendPart (lines 189-226).         *)
(***************************************************************************)
\* ps.map((x, i) => (i === idx ? { ...x, email, error: null } : x)) (line 387)
WithEmail(ps, idx, email) ==
  [i \in DOMAIN ps |-> IF i = idx THEN [ps[i] EXCEPT !.email = email, !.error = NoError]
                       ELSE ps[i]]

\* the e-mail input's onChange (lines 382-390)
setEmail ==
  /\ \E idx \in DOMAIN parts : \E e \in EmailInputs \ {parts[idx].email} :
       /\ parts' = WithEmail(parts, idx, e)
       /\ live' = PartsEffectCleanup(live, parts)
  /\ UNCHANGED <<file, agents, status, shuffleRows, memoShuffle, minted, inflight, splits>>
  /\ UNCHANGED otherVars

\* line 196
WithInvalid(ps, idx) ==
  [i \in DOMAIN ps |-> IF i = idx THEN [ps[i] EXCEPT !.error = MsgInvalidEmail]
                       ELSE ps[i]]

\* a Sending that keeps the error of the previous attempt
WithSendingKeepsError(ps, idx) ==
  [i \in DOMAIN ps |->
     IF i = idx THEN [ps[i] EXCEPT !.sending = TRUE, !.sentOk = FALSE] ELSE ps[i]]

\* line 200
WithSending(ps, idx) ==
  [i \in DOMAIN ps |->
     IF i = idx THEN [ps[i] EXCEPT !.sending = TRUE, !.sentOk = FALSE, !.error = NoError]
     ELSE ps[i]]

\* a success that forgets to leave Sending
WithSentStillSending(ps, idx) ==
  [i \in DOMAIN ps |-> IF i = idx THEN [ps[i] EXCEPT !.sentOk = TRUE] ELSE ps[i]]

\* line 218
WithSent(ps, idx) ==
  [i \in DOMAIN ps |->
     IF i = idx THEN [ps[i] EXCEPT !.sending = FALSE, !.sentOk = TRUE] ELSE ps[i]]

\* a failure written to every part: the test i === index forgotten
WithFailedAll(ps, idx, message) ==
  [i \in DOMAIN ps |-> [ps[i] EXCEPT !.sending = FALSE, !.sentOk = FALSE, !.error = message]]

\* lines 220-222
WithFailed(ps, idx, message) ==
  [i \in DOMAIN ps |->
     IF i = idx THEN [ps[i] EXCEPT !.sending = FALSE, !.sentOk = FALSE, !.error = message]
     ELSE ps[i]]

\* the Send button of row idx (lines 395-401, disabled while p.sending) runs
\* sendPart(idx) up to its return of line 197 or its suspension at line 209
sendPartClick(idx) ==
  /\ idx \in DOMAIN parts
  /\ ~parts[idx].sending
  /\ LET part == parts[idx]
         email == Trim(part.email)
     IN  IF ~EmailRegex(email)
         THEN /\ parts' = WithInvalid(parts, idx)
              /\ UNCHANGED inflight
         ELSE /\ Len(inflight) < MaxInFlight
              /\ parts' = WithSending(parts, idx)
              /\ inflight' = Append(inflight,
                                    [index |-> idx, url |-> part.url])
  /\ live' = PartsEffectCleanup(live, parts)
  /\ UNCHANGED <<file, agents, status, shuffleRows, memoShuffle, minted, splits>>
  /\ UNCHANGED otherVars

\* a message that forgets what the transport reported
FailureMessageGeneric(o) == MsgFailedToSend

\* the message of the rejection caught at line 219
FailureMessage(o) ==
  IF o.kind = "http"
  THEN (IF o.text # "" THEN o.text ELSE MsgFailedToSend)
  ELSE (IF o.text # "" THEN o.text ELSE MsgError)

\* the transport answers the n-th suspended sendPart, which runs to its end
\* (lines 210-223) on the parts of that moment
sendPartResume(n, o) ==
  /\ n \in DOMAIN inflight
  /\ inflight' = RemoveAt(inflight, n)
  /\ LET call == inflight[n]
     IN  parts' = IF o.kind = "ok" THEN WithSent(parts, call.index)
                  ELSE WithFailed(parts, call.index, FailureMessage(o))
  /\ live' = PartsEffectCleanup(live, parts)
  /\ UNCHANGED <<file, agents, status, shuffleRows, memoShuffle, minted, splits>>
  /\ UNCHANGED otherVars

\* any row's Send button
sendPartClicked == \E idx \in DOMAIN parts : sendPartClick(idx)

\* any answer of the transport to any suspended sendPart
sendPartResumed == \E n \in DOMAIN inflight : \E o \in Outcomes : sendPartResume(n, o)

\* Spec: the behaviours in which the user types the part counts of
\* CountInputs and leaves the shuffle and BOM options as they are
Next ==
  \/ onFileChange
  \/ handleDrop
  \/ resetAll
  \/ setAgents(CountInputs)
  \/ handleSplitClick
  \/ handleSplitResume
  \/ setEmail
  \/ sendPartClicked
  \/ sendPartResumed

Spec == Init /\ [][Next]_vars

\* the transport settles the longest-waiting fetch
AnswerOldest == \E o \in Outcomes : sendPartResume(1, o)

\* SpecLive: the behaviours of Spec in which every fetch is settled in the
\* end, answered or failed, in any order: the longest-waiting one always is
SpecLive == Init /\ [][Next]_vars /\ WF_vars(AnswerOldest)

\* SpecSplit: the behaviours in which the user works the split options (any
\* text of AgentInputs, the shuffle and BOM checkboxes) and leaves the parts
\* table alone
SplitNext ==
  \/ onFileChange
  \/ handleDrop
  \/ resetAll
  \/ setAgents(AgentInputs)
  \/ setShuffleRows
  \/ setIncludeBOM
  \/ handleSplitClick
  \/ handleSplitResume

SpecSplit == Init /\ [][SplitNext]_vars

(***************************************************************************)
(* SpecPartition: one call of splitEvenly on every input within the bounds *)
(***************************************************************************)
PartitionInit ==
  /\ rowsArg \in {RowIds(n) : n \in 0..MaxN}
  /\ partsArg \in 1..MaxK
  /\ shuffleArg \in BOOLEAN
  /\ chunks = <<>>
  /\ called = FALSE
  /\ swaps = <<>>
  /\ SniffIdle
  /\ RouteIdle
  /\ LifeInit

CallSplitEvenly ==
  /\ ~called
  /\ \E draws \in RandomDraws(Len(rowsArg)) :
       /\ chunks' = splitEvenly(rowsArg, partsArg, shuffleArg, draws)
       /\ rowsArg' = ShuffleBranch(rowsArg, shuffleArg, draws).arrays[1]
       /\ swaps' = IF shuffleArg THEN ShuffleSwaps(Len(rowsArg) - 1, draws) ELSE <<>>
  /\ called' = TRUE
  /\ UNCHANGED <<partsArg, shuffleArg>>
  /\ UNCHANGED <<sniffVars, routeVars, lifeVars>>

PartitionNext == CallSplitEvenly

SpecPartition == PartitionInit /\ [][PartitionNext]_vars

(***************************************************************************)
(* SpecSniff: one call of guessDelimiter on every sample within the bound  *)
(***************************************************************************)
PartitionIdle ==
  /\ rowsArg = <<>> /\ partsArg = 1 /\ shuffleArg = FALSE
  /\ chunks = <<>> /\ called = FALSE /\ swaps = <<>>

SniffInit ==
  /\ sample \in Samples
  /\ best = ","
  /\ guessed = FALSE
  /\ PartitionIdle
  /\ RouteIdle
  /\ LifeInit

CallGuessDelimiter ==
  /\ ~guessed
  /\ best' = guessDelimiter(sample)
  /\ guessed' = TRUE
  /\ UNCHANGED sample
  /\ UNCHANGED <<partVars, routeVars, lifeVars>>

SniffNext == CallGuessDelimiter

SpecSniff == SniffInit /\ [][SniffNext]_vars

(***************************************************************************)
(* SpecRoute: one request to POST /api/send-split                          *)
(***************************************************************************)
RouteInit ==
  /\ env \in Envs
  /\ form \in Forms
  /\ response = 0
  /\ brevoCalls = 0
  /\ PartitionIdle
  /\ SniffIdle
  /\ LifeInit

\* POST (lines 714-792): the status of its response, and its call of the
\* Brevo API
POST ==
  /\ response = 0
  /\ IF MissingEnv(env)
     THEN response' = 500 /\ UNCHANGED brevoCalls
     ELSE LET email == Trim(form.email)
          IN  IF ~EMAIL_REGEX(email)
              THEN response' = 400 /\ UNCHANGED brevoCalls
              ELSE IF form.file # "Blob"
              THEN response' = 400 /\ UNCHANGED brevoCalls
              ELSE IF form.byteLength > MAX_ATTACHMENT_BYTES
              THEN response' = 400 /\ UNCHANGED brevoCalls
              ELSE \E o \in BrevoOutcomes :
                     /\ brevoCalls' = brevoCalls + 1
                     /\ response' = CASE o = "ok" -> 200
                                      [] o = "error" -> 502
                                      [] OTHER -> 500
  /\ UNCHANGED <<env, form>>
  /\ UNCHANGED <<partVars, sniffVars, lifeVars>>

RouteNext == POST

SpecRoute == RouteInit /\ [][RouteNext]_vars

(***************************************************************************)
(* Claims about the partitioner.                                           *)
(***************************************************************************)
\* C1: for every row count N >= 0 and part count k >= 1, shuffle on or off,
\* splitEvenly returns exactly k parts whose row counts sum to N and whose
\* concatenation in part order holds every input row exactly once.
C1_PartitionIsPermutation ==
  called =>
    /\ Len(chunks) = partsArg
    /\ SumLen(chunks) = Len(rowsArg)
    /\ Len(Concat(chunks)) = Len(rowsArg)
    /\ \A i \in DOMAIN rowsArg : Occurrences(Concat(chunks), rowsArg[i]) = 1

\* C1 witness: a shuffled split of several rows into several parts that
\* really reordered the rows
C1_Witness ==
  /\ called /\ shuffleArg
  /\ Len(rowsArg) >= 3 /\ partsArg >= 2
  /\ Concat(chunks) # rowsArg

\* the rows of the registered parts, concatenated in part order
PartRows(ps) == Concat([i \in DOMAIN ps |-> ps[i].blob])

\* the step in which the n-th suspended handleSplit installs its parts: only
\* a handleSplit that ends well sets the success status and leaves `splits`
SplitInstalls(n) ==
  /\ n \in DOMAIN splits
  /\ status' = MsgDone
  /\ Len(splits') < Len(splits)
  /\ splits' = RemoveAt(splits, n)

\* C2: when shuffle = false, concatenating the parts in sequenceIndex order
\* reconstructs the original row sequence exactly, and each part is a
\* contiguous range of the input, laid out in increasing index order with no
\* gaps or overlaps.  Stated of every split clicked and completed with the
\* shuffle option off.
C2_OrderKeptWithoutShuffle ==
  [][\A n \in DOMAIN splits :
       (SplitInstalls(n) /\ ~splits[n].option /\ ~shuffleRows) =>
         LET rows == Tail(splits[n].file.data)
         IN  /\ PartRows(parts') = rows
             /\ \A i \in DOMAIN parts' :
                  LET start == SumLen([j \in 1..(i - 1) |-> parts'[j].blob])
                  IN  parts'[i].blob = SubSeq(rows, start + 1, start + parts'[i].rowCount)
    ]_vars

\* C3: policy A: the first (N mod k) parts have floor(N/k)+1 rows and the
\* remaining parts floor(N/k) rows, so that part sizes differ by at most one
\* (7 rows, k = 3: sizes 3, 2, 2).
C3_EvenDistribution ==
  called =>
    LET N == Len(rowsArg)
        k == partsArg
    IN  /\ Len(chunks) = k
        /\ \A p \in 1..k :
             Len(chunks[p]) = IF p <= N % k THEN (N \div k) + 1 ELSE N \div k
        /\ \A p, q \in 1..k : Len(chunks[p]) - Len(chunks[q]) \in {-1, 0, 1}
        /\ (N = 7 /\ k = 3) => <<Len(chunks[1]), Len(chunks[2]), Len(chunks[3])>> = <<3, 2, 2>>

\* C3 witness: 7 rows split into 3 parts of sizes 3, 2, 2
C3_Witness ==
  /\ called /\ Len(rowsArg) = 7 /\ partsArg = 3
  /\ Len(chunks[1]) = 3 /\ Len(chunks[2]) = 2 /\ Len(chunks[3]) = 2

\* C4: policy B: when N mod k # 0, every part except the last has exactly
\* floor(N/k) rows and the last part has N - floor(N/k)*(k-1) rows (7 rows,
\* k = 3: sizes 2, 2, 3).  splitEvenly has no lastPartSmaller parameter and
\* the component no such option, so a split that asks for policy B runs the
\* only splitEvenly there is: the statement is made of every call.
C4_LastPartAbsorbsRemainder ==
  (called /\ Len(rowsArg) % partsArg # 0) =>
    LET N == Len(rowsArg)
        k == partsArg
    IN  /\ Len(chunks) = k
        /\ \A p \in 1..(k - 1) : Len(chunks[p]) = N \div k
        /\ Len(chunks[k]) = N - (N \div k) * (k - 1)

(***************************************************************************)
(* Claims about the component.                                             *)
(***************************************************************************)
\* C5: in every reachable state the live (unrevoked) object URLs are exactly
\* the URLs held by the registered parts: no registered part points to a
\* revoked URL and no live URL is held by no registered part.
C5_LiveHandlesAreRegistered == live = Urls(parts)

\* a transition that supersedes the part set by clearing it (each of them
\* empties the status, which is tested first)
ClearsParts == status' = "" /\ (onFileChange \/ handleDrop \/ resetAll)

\* a transition that supersedes the part set by a new split
InstallsParts == status' = MsgDone /\ \E n \in DOMAIN splits : SplitInstalls(n)

\* C6: on every transition that supersedes the part set (a new split, a
\* reset, a file replacement by input or by drop) the URL of every previously
\* registered part is revoked; after a split only that split's URLs are live,
\* and after a reset or a file replacement the registry is empty and no URL
\* is live.
C6_SupersededHandlesReleased ==
  [][/\ (ClearsParts \/ InstallsParts) => Urls(parts) \cap live' = {}
     /\ ClearsParts => (parts' = <<>> /\ live' = {})
     /\ InstallsParts => (parts' # <<>> /\ live' = Urls(parts'))
    ]_vars

\* C6 witness: a second part set is registered, its URLs live, after the
\* URLs of an earlier part set were minted and released
C6_Witness ==
  /\ parts # <<>> /\ minted > Len(parts)
  /\ live = Urls(parts)
  /\ \A u \in 1..minted : u \in live <=> u \in Urls(parts)

\* the dispatch state the row of a part shows (lines 391-401)
DispatchState(p) ==
  IF p.sending THEN "Sending"
  ELSE IF p.sentOk THEN "Sent"
  ELSE IF p.error # NoError THEN "Failed"
  ELSE "Idle"

\* the step keeps the part set: the same parts at the same places
SamePartSet ==
  /\ DOMAIN parts' = DOMAIN parts
  /\ \A i \in DOMAIN parts : parts'[i].url = parts[i].url

\* C7: Sent is terminal: a part whose state is Sent stays Sent (never Sending,
\* never Failed) for as long as the part set is not replaced.
C7_SentIsTerminal ==
  [][\A i \in DOMAIN parts :
       (SamePartSet /\ DispatchState(parts[i]) = "Sent") =>
         /\ DispatchState(parts'[i]) = "Sent"
         /\ parts'[i].error = NoError
    ]_vars

\* the transport calls in flight for part index i
InFlightFor(i) == {n \in DOMAIN inflight : inflight[n].index = i}

\* C8: a dispatch requested for a part that is Sending is rejected (no second
\* transport call, state unchanged), so that at most one transport call per
\* part index is in flight at any time.
C8_OneCallPerPartIndex ==
  /\ \A i \in DOMAIN parts : parts[i].sending => ~ENABLED sendPartClick(i)
  /\ \A n \in DOMAIN inflight : Cardinality(InFlightFor(inflight[n].index)) <= 1

\* the steps of sendPart(i): the click on Send, and the transport's answer o
\* to the n-th call in flight.  A click never shortens `inflight` and an
\* answer always does, which is tested first.
ClickStep(i) == Len(inflight') >= Len(inflight) /\ splits' = splits /\ sendPartClick(i)
AnswerStep(n, o) == Len(inflight') < Len(inflight) /\ sendPartResume(n, o)

\* what a dispatch of another part must leave alone in part j
Untouched(j) ==
  /\ j \in DOMAIN parts'
  /\ parts'[j].email = parts[j].email
  /\ parts'[j].sending = parts[j].sending
  /\ parts'[j].sentOk = parts[j].sentOk
  /\ parts'[j].error = parts[j].error

\* C9: every step of a dispatch of part i (validation failure, entering
\* Sending, success, transport failure) leaves the recipient, dispatch state
\* and error of every other part unchanged, and a Failed part does not keep
\* any other part from being dispatched: the Send button of every part that
\* is not Sending works (within the bound on calls in flight).
C9_DispatchesAreIndependent ==
  /\ [][/\ \A i \in DOMAIN parts :
             ClickStep(i) => \A j \in DOMAIN parts \ {i} : Untouched(j)
        /\ \A n \in DOMAIN inflight : \A o \in Outcomes :
             AnswerStep(n, o) =>
               \A k \in DOMAIN parts \ {inflight[n].index} : Untouched(k)
       ]_vars
  /\ [](\A i \in DOMAIN parts : \A j \in DOMAIN parts \ {i} :
          (DispatchState(parts[i]) = "Failed" /\ ~parts[j].sending
             /\ Len(inflight) < MaxInFlight) => ENABLED sendPartClick(j))

\* C9 witness: one part Failed by the transport while another part, whose
\* dispatch succeeded, is Sent
C9_Witness ==
  \E i, j \in DOMAIN parts :
    /\ i # j
    /\ DispatchState(parts[i]) = "Failed" /\ parts[i].error = "Brevo error"
    /\ DispatchState(parts[j]) = "Sent"

\* the pattern <non-blank, no '@'>@<non-blank>.<non-blank>
Blank(s) == s = <<>> \/ \E i \in DOMAIN s : s[i] \in Whitespace
MatchesPattern(s) ==
  \E a \in 1..Len(s) : \E d \in (a + 1)..Len(s) :
    /\ s[a] = "@" /\ s[d] = "."
    /\ ~Blank(SubSeq(s, 1, a - 1))
    /\ \A i \in 1..(a - 1) : s[i] # "@"
    /\ ~Blank(SubSeq(s, a + 1, d - 1))
    /\ ~Blank(SubSeq(s, d + 1, Len(s)))

\* C10: dispatching a part whose trimmed recipient does not match the
\* pattern (an empty recipient, "not-an-email") sets that part's error to
\* "Enter a valid email address." at once, without entering Sending and
\* without a transport call.
C10_InvalidRecipientFailsLocally ==
  [][\A i \in DOMAIN parts :
       (ClickStep(i) /\ ~MatchesPattern(Trim(parts[i].email))) =>
         /\ parts'[i].error = MsgInvalidEmail
         /\ ~parts'[i].sending
         /\ inflight' = inflight
    ]_vars

\* C10 witness: a part with recipient "not-an-email" shows the validation
\* error, is not Sending, and no transport call is in flight
C10_Witness ==
  \E i \in DOMAIN parts :
    /\ parts[i].email = <<"n", "o", "t", "-", "a", "n", "-", "e", "m", "a", "i", "l">>
    /\ parts[i].error = MsgInvalidEmail
    /\ ~parts[i].sending
    /\ inflight = <<>>

\* the n-th call in flight was made for the part now registered at its index
OwnPart(n) ==
  /\ inflight[n].index \in DOMAIN parts
  /\ parts[inflight[n].index].url = inflight[n].url

\* the messages shown when the transport reported none
GenericFallbacks == {MsgFailedToSend, MsgError}

\* C11: when the transport answers a dispatch whose part is still registered,
\* the part ends in Sent exactly when the answer is a success, and in Failed
\* when it is a non-2xx response or a thrown error; the reason is the text the
\* transport reported (the response body, e.g. that of an HTTP 502) when it
\* is non-empty, and a generic fallback message otherwise.
C11_TransportOutcomeDecidesState ==
  [][\A n \in DOMAIN inflight : \A o \in Outcomes :
       (AnswerStep(n, o) /\ OwnPart(n)) =>
         LET p == parts'[inflight[n].index]
         IN  /\ DispatchState(p) = "Sent" <=> o.kind = "ok"
             /\ o.kind # "ok" =>
                  /\ DispatchState(p) = "Failed"
                  /\ IF o.text # "" THEN p.error = o.text
                     ELSE p.error \in GenericFallbacks
    ]_vars

\* C11 witness: a part Failed with the generic fallback, after a non-2xx
\* response with an empty body
C11_Witness ==
  \E i \in DOMAIN parts :
    DispatchState(parts[i]) = "Failed" /\ parts[i].error = MsgFailedToSend

\* C12: a click on Send for a Failed part with a valid recipient moves the
\* part to Sending with the failure reason cleared and makes a new transport
\* call; a Failed part's Send button always works (within the bound on calls
\* in flight); and the transport can answer the new call with a success,
\* which leaves the part Sent.
C12_FailedPartIsRetryable ==
  /\ [][\A i \in DOMAIN parts :
          (/\ DispatchState(parts[i]) = "Failed"
           /\ ClickStep(i)
           /\ MatchesPattern(Trim(parts[i].email))) =>
            /\ DispatchState(parts'[i]) = "Sending"
            /\ parts'[i].error = NoError
            /\ inflight' = Append(inflight, [index |-> i, url |-> parts[i].url])
       ]_vars
  /\ [](\A i \in DOMAIN parts :
          (DispatchState(parts[i]) = "Failed" /\ Len(inflight) < MaxInFlight)
            => ENABLED sendPartClick(i))
  /\ [](\A n \in DOMAIN inflight :
          (OwnPart(n) /\ parts[inflight[n].index].sending) =>
            ENABLED (/\ sendPartResume(n, [kind |-> "ok", text |-> ""])
                     /\ DispatchState(parts'[inflight[n].index]) = "Sent"))

\* C12 witness: a part Failed by a rejected fetch, its recipient valid, with
\* room for another transport call
C12_Witness ==
  \E i \in DOMAIN parts :
    /\ DispatchState(parts[i]) = "Failed" /\ parts[i].error = "Failed to fetch"
    /\ MatchesPattern(Trim(parts[i].email))
    /\ Len(inflight) < MaxInFlight

\* the texts that are the decimal numeral of a positive integer
DenotesPositiveInteger(text) == text \in {"1", "2", "3", "4", "5", "6", "7", "8", "9"}

\* C13: a click on Split with a part count that is not a positive integer
\* (zero, negative, fractional, empty, non-numeric) reports the validation
\* error and nothing else: the file is not parsed (no handleSplit is left
\* waiting for the parser), no part is created, no URL is minted or revoked,
\* and the registered parts stay as they are.
C13_InvalidCountRejected ==
  [][(handleSplitClick /\ ~DenotesPositiveInteger(agents)) =>
       /\ status' = MsgAgents
       /\ splits' = splits
       /\ parts' = parts
       /\ minted' = minted
       /\ live' = live
    ]_vars

\* C13 witness: the validation error is shown for a part count that is not a
\* positive integer while the parts of an earlier split are registered, their
\* URLs live
C13_Witness ==
  /\ status = MsgAgents
  /\ ~DenotesPositiveInteger(agents)
  /\ parts # <<>> /\ live = Urls(parts)
  /\ splits = <<>>

\* C14: when the part count k exceeds the row count N, splitEvenly still
\* returns exactly k parts: each of the first N holds one row, every part
\* beyond index N holds none, and for N = 0 all k parts are empty.
C14_MorePartsThanRows ==
  (called /\ partsArg > Len(rowsArg)) =>
    /\ Len(chunks) = partsArg
    /\ \A p \in 1..partsArg :
         Len(chunks[p]) = IF p <= Len(rowsArg) THEN 1 ELSE 0
    /\ Len(rowsArg) = 0 => chunks = [p \in 1..partsArg |-> <<>>]

\* C14 witness: two rows split into four parts, the last two empty
C14_Witness ==
  /\ called /\ Len(rowsArg) = 2 /\ partsArg = 4
  /\ chunks[1] # <<>> /\ chunks[2] # <<>>
  /\ chunks[3] = <<>> /\ chunks[4] = <<>>

\* the candidate delimiters in their declared order: comma, tab, semicolon,
\* pipe
DeclaredOrder == <<",", "\t", ";", "|">>

\* how often the c-th candidate occurs in the sample
CountOf(c) == Occurrences(sample, DeclaredOrder[c])

\* C15: guessDelimiter always returns one of ',', tab, ';', '|': a candidate
\* whose count in the sample no other candidate exceeds and no earlier
\* candidate in the declared order equals, which is comma when all counts are
\* zero; a sample with 5 commas, 2 semicolons, no tab and no pipe gives comma.
C15_MostFrequentDelimiter ==
  guessed =>
    /\ best \in {",", "\t", ";", "|"}
    /\ \E c \in 1..4 :
         /\ best = DeclaredOrder[c]
         /\ \A e \in 1..4 : CountOf(e) <= CountOf(c)
         /\ \A e \in 1..(c - 1) : CountOf(e) < CountOf(c)
    /\ (\A e \in 1..4 : CountOf(e) = 0) => best = ","
    /\ (CountOf(1) = 5 /\ CountOf(2) = 0 /\ CountOf(3) = 2 /\ CountOf(4) = 0)
         => best = ","

\* C15 witness: comma returned for 5 commas, 2 semicolons, no tab, no pipe
C15_Witness ==
  /\ guessed
  /\ CountOf(1) = 5 /\ CountOf(2) = 0 /\ CountOf(3) = 2 /\ CountOf(4) = 0
  /\ best = ","

\* a file name without its last extension (the whole name when it has none)
Stem(name) ==
  IF \E d \in DOMAIN name : name[d] = "."
  THEN LET d == CHOOSE d \in DOMAIN name :
                  name[d] = "." /\ \A e \in (d + 1)..Len(name) : name[e] # "."
       IN  SubSeq(name, 1, d - 1)
  ELSE name

\* the numeral of a part's 1-based position
Numeral(i) == CASE i = 1 -> "1" [] i = 2 -> "2" [] i = 3 -> "3" [] i = 4 -> "4"
                [] OTHER -> "?"

\* C16: every part installed by a successful split is named
\* "{baseName}-part{i}.csv" with i its 1-based position and baseName the
\* split file's name without extension, holds a URL never handed out before
\* (so held by no part of the previous set) and by no other new part, is Idle
\* (not sending, not sent, no error), and has rowCount equal to the number of
\* its rows.
C16_InstalledPartsAreFresh ==
  [][\A n \in DOMAIN splits :
       SplitInstalls(n) =>
         /\ Len(parts') = splits[n].partsCount
         /\ \A i \in DOMAIN parts' :
              /\ parts'[i].name =
                   Stem(splits[n].file.name)
                     \o <<"-", "p", "a", "r", "t", Numeral(i), ".", "c", "s", "v">>
              /\ parts'[i].url \notin 1..minted
              /\ parts'[i].url \notin Urls(parts)
              /\ \A j \in DOMAIN parts' \ {i} : parts'[j].url # parts'[i].url
              /\ DispatchState(parts'[i]) = "Idle"
              /\ ~parts'[i].sending /\ ~parts'[i].sentOk /\ parts'[i].error = NoError
              /\ parts'[i].rowCount = Len(parts'[i].blob)
    ]_vars

\* C16 witness: the two parts of a second split of a.csv, named a-part1.csv
\* and a-part2.csv, Idle, with URLs minted after those of the first split
C16_Witness ==
  /\ status = MsgDone
  /\ Len(parts) = 2 /\ minted > 2
  /\ parts[1].name = <<"a", "-", "p", "a", "r", "t", "1", ".", "c", "s", "v">>
  /\ parts[2].name = <<"a", "-", "p", "a", "r", "t", "2", ".", "c", "s", "v">>
  /\ parts[1].url = minted - 1 /\ parts[2].url = minted
  /\ \A i \in DOMAIN parts : DispatchState(parts[i]) = "Idle"

\* the step in which the e-mail input of part idx receives the text e
UpdateRecipient(idx, e) ==
  /\ e # parts[idx].email
  /\ inflight' = inflight
  /\ parts' = WithEmail(parts, idx, e)
  /\ setEmail

\* C17: updateRecipient(idx, e) sets only that part's recipient and clears
\* that part's error; it leaves unchanged the part's name, rows, rowCount and
\* URL, which stays live if it was, every other part, and the number and
\* order of the registered parts.
C17_UpdateRecipientFrame ==
  [][\A idx \in DOMAIN parts : \A e \in EmailInputs :
       UpdateRecipient(idx, e) =>
         /\ parts'[idx].email = e
         /\ parts'[idx].error = NoError
         /\ parts'[idx].name = parts[idx].name
         /\ parts'[idx].blob = parts[idx].blob
         /\ parts'[idx].rowCount = parts[idx].rowCount
         /\ parts'[idx].url = parts[idx].url
         /\ parts[idx].url \in live => parts'[idx].url \in live'
         /\ Len(parts') = Len(parts)
         /\ \A j \in DOMAIN parts \ {idx} : parts'[j] = parts[j]
    ]_vars

(***************************************************************************)
(* Claims about the route.                                                 *)
(***************************************************************************)
\* what the route requires of a request before it calls the transport
CredentialsPresent == env.apiKey /\ env.fromEmail
RecipientValid == MatchesPattern(Trim(form.email))
AttachmentPresent == form.file = "Blob"
AttachmentWithinCap == form.byteLength <= 20 * 1024 * 1024

\* C18: the route calls the Brevo API only when the credentials are set, the
\* trimmed recipient matches the e-mail pattern, an attachment is present and
\* its size is at most 20 MiB; a request without credentials is answered with
\* a 500-class status, and one with credentials but a missing or invalid
\* recipient, no attachment or an attachment above 20 MiB with a 400-class
\* status, each without any call of the Brevo API.
C18_GatewayValidatesBeforeTransport ==
  /\ brevoCalls > 0 =>
       /\ CredentialsPresent /\ RecipientValid
       /\ AttachmentPresent /\ AttachmentWithinCap
  /\ response # 0 =>
       /\ ~CredentialsPresent => (response \in 500..599 /\ brevoCalls = 0)
       /\ (/\ CredentialsPresent
           /\ ~(RecipientValid /\ AttachmentPresent /\ AttachmentWithinCap))
            => (response \in 400..499 /\ brevoCalls = 0)

\* C18 witness: with credentials and a valid recipient, an attachment one byte
\* above 20 MiB is answered 400 without a call of the Brevo API
C18_Witness ==
  /\ response = 400 /\ brevoCalls = 0
  /\ CredentialsPresent /\ RecipientValid /\ AttachmentPresent
  /\ form.byteLength = 20 * 1024 * 1024 + 1

(***************************************************************************)
(* Claims about the progress of a dispatch.                                *)
(***************************************************************************)
\* the positions a part can have: up to the largest part count typed
PartIndices == {i \in 1..MaxUrls : \E a \in CountInputs : i <= Number(a).value}

\* part i is registered and Sending
Sending(i) == i \in DOMAIN parts /\ parts[i].sending

\* C19: provided the transport settles every call, a part that is Sending
\* eventually is not: at every position, again and again no part is Sending
\* (no registered part stays Sending forever); a part that
\* stays registered leaves Sending only for Sent or Failed; and a call in
\* flight is never dropped by anything but the transport's answer: no
\* operation cancels it.
C19_DispatchRunsToCompletion ==
  /\ \A i \in PartIndices : []<>~Sending(i)
  /\ [][/\ \A i \in DOMAIN parts :
             (/\ parts[i].sending
              /\ i \in DOMAIN parts' /\ parts'[i].url = parts[i].url
              /\ ~parts'[i].sending)
               => DispatchState(parts'[i]) \in {"Sent", "Failed"}
        /\ Len(inflight') < Len(inflight) =>
             \E n \in DOMAIN inflight : \E o \in Outcomes : AnswerStep(n, o)
       ]_vars

\* C19 witness: a dispatch that ran to completion: the part is Sent, its
\* recipient valid, and no call is left in flight
C19_Witness ==
  /\ inflight = <<>>
  /\ \E i \in DOMAIN parts :
       DispatchState(parts[i]) = "Sent" /\ MatchesPattern(Trim(parts[i].email))

(***************************************************************************)
(* Claims about repeated splits.                                           *)
(***************************************************************************)
\* the rows of each registered part, in part order
PartContents(ps) == [i \in DOMAIN ps |-> ps[i].blob]

\* C20: without shuffle the partition is a function of the dataset and the
\* part count: every split of the same rows into the same number of parts,
\* clicked and completed with the shuffle option off, installs the same part
\* boundaries and contents, whatever Math.random would draw -- those of the
\* partitioner run without shuffle.
C20_DeterministicWithoutShuffle ==
  [][\A n \in DOMAIN splits :
       (SplitInstalls(n) /\ ~splits[n].option /\ ~shuffleRows) =>
         LET rows == Tail(splits[n].file.data)
         IN  \A draws \in RandomDraws(Len(rows)) :
               PartContents(parts') =
                 splitEvenly(rows, splits[n].partsCount, FALSE, draws)
    ]_vars

(***************************************************************************)
(* Claims about failed splits.                                             *)
(***************************************************************************)
\* the step in which the n-th suspended handleSplit resumes and ends: no
\* other handler takes a call out of `splits`
ResumeOf(n) ==
  /\ Len(splits') < Len(splits)
  /\ splits' = RemoveAt(splits, n)

\* the messages of the errors parseCsv can reject with
ParseErrors == {MsgEmptyCsv, MsgReadError}

\* C21: every split attempt that fails ends with the status set to the
\* error's message: a click with a part count that is not a positive integer
\* shows the validation message, and a suspended split that ends without
\* installing parts (the input is empty or the parser reports an error), as
\* every split of an input without a line, shows the parse error's message,
\* never the success status or the status of the running parse.  (A click
\* without a file cannot happen: the Split button is disabled then.)
C21_SplitFailureIsShown ==
  [][/\ (handleSplitClick /\ ~DenotesPositiveInteger(agents)) =>
          (status' = MsgAgents /\ status' # MsgDone)
     /\ \A n \in DOMAIN splits :
          ResumeOf(n) =>
            /\ minted' = minted => status' \in ParseErrors
            /\ splits[n].file.data = <<>> =>
                 (minted' = minted /\ status' \in ParseErrors)
            /\ status' = MsgDone => (minted' > minted /\ parts' # <<>>)
    ]_vars

\* C21 witness: the split of the file without a line has ended: its error is
\* shown, nothing is registered, no split is pending
C21_Witness ==
  /\ status = MsgEmptyCsv
  /\ file.chosen /\ file.data = <<>>
  /\ parts = <<>> /\ splits = <<>>

(***************************************************************************)
(* Claims about the shuffle.                                               *)
(***************************************************************************)
\* C22: the shuffle works on a copy: the call of splitEvenly, with shuffle
\* on or off, leaves the caller's row array as it was (the same rows in the
\* same order); and the shuffle makes one swap for each i from the last index
\* down to 1, each with a position j where 0 <= j <= i.
C22_ShuffleOnOwnedCopy ==
  /\ [][(~called /\ called') => rowsArg' = rowsArg]_vars
  /\ [](called /\ shuffleArg =>
          /\ Len(swaps) = (IF rowsArg = <<>> THEN 0 ELSE Len(rowsArg) - 1)
          /\ \A k \in DOMAIN swaps :
               /\ swaps[k].i = Len(rowsArg) - k
               /\ 0 <= swaps[k].j /\ swaps[k].j <= swaps[k].i)

\* C22 witness: a shuffled split whose parts hold the rows in another order
\* than the caller's array, which still is in its order
C22_Witness ==
  /\ called /\ shuffleArg
  /\ Len(rowsArg) >= 3 /\ rowsArg = RowIds(Len(rowsArg))
  /\ Len(swaps) = Len(rowsArg) - 1
  /\ \E k \in DOMAIN swaps : swaps[k].j < swaps[k].i
  /\ Concat(chunks) # rowsArg

(***************************************************************************)
(* Claims about the dispatch state of a part.                              *)
(***************************************************************************)
\* how many of sending, sentOk and "an error is set" hold of a part
MarksOf(p) ==
  (IF p.sending THEN 1 ELSE 0) + (IF p.sentOk THEN 1 ELSE 0)
    + (IF p.error # NoError THEN 1 ELSE 0)

\* C23: in every reachable state, at most one of sending, sentOk and "an
\* error is set" holds of each registered part: no part is shown as Sent and
\* Failed at once, nor as Sending together with Sent or with an error.
C23_ExactlyOneDispatchState ==
  \A i \in DOMAIN parts : MarksOf(parts[i]) <= 1

(***************************************************************************)
(* Claims about outcomes that arrive late.                                 *)
(***************************************************************************)
\* C24: the answer of the transport to a call whose part is no longer
\* registered at the call's index (the part set was replaced while the call
\* was in flight) changes no registered part: the new part at that index
\* keeps its dispatch state, Idle until it is dispatched itself.
C24_LateOutcomeChangesNoPart ==
  [][\A n \in DOMAIN inflight : \A o \in Outcomes :
       (AnswerStep(n, o) /\ ~OwnPart(n)) => parts' = parts
    ]_vars

\* C25: a suspended split that was started on another file than the one now
\* chosen (a reset or a file replacement came in between) installs no parts
\* and mints no URL when it resumes: after the reset or replacement the
\* registry stays as it is until a split started afterwards completes.
C25_SupersededSplitInstallsNothing ==
  [][\A n \in DOMAIN splits :
       (ResumeOf(n) /\ splits[n].file # file) =>
         (parts' = parts /\ minted' = minted /\ live' = live)
    ]_vars

====
